---- MODULE Spec2Model ----
(***************************************************************************)
(* Model of the tokenizer of blog.vanloo.ch (src/tokenizer.go).            *)
(*                                                                         *)
(* A Tokenizer holds the input runes bs, the cursor pos, the token buffer  *)
(* tokens and the next transition function state.  Tokenize drives the     *)
(* transition functions in a loop.  Runes are modelled by their code       *)
(* points (integers), a Go string by the sequence of the code points it    *)
(* holds, Go (0-based) indices are kept as they are in the source: the     *)
(* rune bs[i] of the source is At(bs, i).                                  *)
(***************************************************************************)
EXTENDS Integers, Sequences, FiniteSets, TLC

----------------------------------------------------------------------------
(* Bounds of the model *)

\* longest input that is enumerated exhaustively
MaxLen == 4

\* the count up to which the history variable stall counts
MaxStall == 4

\* longest input that is enumerated exhaustively for the first of two
\* tokenizers that run interleaved
MaxPairLen == 2

----------------------------------------------------------------------------
(* Token types, src/tokenizer.go:6-11 *)

TypeFormStart == 0
TypeAtom == 1
TypeText == 2
TypeFormEnd == 3

(* Rune literals of the source *)

LParen == 40
RParen == 41
Backslash == 92
Plus == 43
Space == 32
Newline == 10
CarriageReturn == 13
Tab == 9
VTab == 11
FormFeed == 12
Hyphen == 45

\* the text of the synthetic atom of tokEOF, "eof"
EofText == <<101, 111, 102>>

\* the runes of the enumerated inputs: the runes the tokenizer tells apart,
\* 'a' (97) for the atom class and '*' (42) for every other rune
Alphabet == {LParen, RParen, Backslash, Plus, Space, 97, 42}

RECURSIVE SeqsUpTo(_)
SeqsUpTo(n) ==
    IF n = 0 THEN {<<>>}
    ELSE LET shorter == SeqsUpTo(n - 1)
         IN  shorter \cup {Append(s, c) : s \in {x \in shorter : Len(x) = n - 1}, c \in Alphabet}

\* the inputs the specification's testable properties name, inputs with the
\* other whitespace runes, digits, '-', an uppercase letter and '_', and
\* inputs with a surrogate half (55296) or a value above the last code point
\* (1114112), values a []rune can hold that are no Unicode scalar values
Examples ==
    { <<55296>>,
      <<40, 41, 55296>>,
      <<40, 55296, 97, 41>>,
      <<40, 97, 32, 55296, 92, 41, 1114112, 41>> } \cup
    { <<40, 40, 97, 41, 41>>,                         \* ((a))
      <<97, 92, 40, 98>>,                             \* a\(b
      <<92, 43, 40, 92, 43>>,                         \* \+(\+
      <<40, 97, 98, 99, 45, 49, 50, 41>>,             \* (abc-12)
      <<40, 97, 41>>,                                 \* (a)
      <<104, 101, 108, 108, 111>>,                    \* hello
      <<40, 97, 65, 41>>,                             \* (aA)
      <<40, 97, 95, 98, 41>>,                         \* (a_b)
      <<9, 10, 11, 12, 13, 40, 97, 41, 10>>,          \* \t\n\v\f\r(a)\n
      <<97, 92, 43, 41, 40, 92, 43, 98, 41>>,         \* a\+)(\+b)
      <<40, 101, 111, 102, 41>> }                     \* (eof)

Inputs == SeqsUpTo(MaxLen) \cup Examples

----------------------------------------------------------------------------
(* Helpers *)

\* bs[i] of the source (0-based)
At(b, i) == b[i + 1]

\* bs[lo:hi] of the source
Slice(b, lo, hi) == SubSeq(b, lo + 1, hi)

\* string(r) for one rune: a rune that is no valid Unicode scalar value
\* (a surrogate half, a negative or too large value) becomes U+FFFD
RuneToString(r) ==
    IF (r >= 0 /\ r < 55296) \/ (r > 57343 /\ r <= 1114111) THEN r ELSE 65533

\* string(rs) for a slice of runes: the concatenation of the converted runes
String(rs) == [i \in 1..Len(rs) |-> RuneToString(rs[i])]

Token(type, text, p) == [Type |-> type, Text |-> text, Pos |-> p]

isWhitespace(r) == r \in {Space, Newline, CarriageReturn, Tab, VTab, FormFeed}

\* isAlpha that takes the uppercase letters as well
isAlpha_Upper(r) == (r >= 65 /\ r <= 90) \/ (r >= 97 /\ r <= 122) \/ r = Hyphen

isAlpha(r) == (r >= 97 /\ r <= 122) \/ r = Hyphen

isNum(r) == r >= 48 /\ r <= 57

isAlphaNum(r) == isAlpha(r) \/ isNum(r)

\* the cursor after skipWhitespace, started at cursor p
RECURSIVE skipWhitespace(_, _)
skipWhitespace(b, p) ==
    IF p < Len(b) /\ isWhitespace(At(b, p)) THEN skipWhitespace(b, p + 1) ELSE p

----------------------------------------------------------------------------
(* The transition functions.  Each takes the input b, the cursor p and the *)
(* token buffer toks and yields the tokenizer after the call: the cursor,  *)
(* the token buffer, the returned transition function, the panic message   *)
(* ("none" when the call returns), and what the Text scan met: esc, the    *)
(* indices of the backslashes that escaped '(', ')' or '\', and tog, the   *)
(* indices of the backslashes of the "\+" it consumed, in order; at, the   *)
(* index the call was looking at when it panicked (-1 otherwise).          *)
(***************************************************************************)

Returns(p, toks, next) ==
    [pos |-> p, tokens |-> toks, state |-> next, panic |-> "none",
     esc |-> {}, tog |-> <<>>, at |-> -1]

Panics(p, toks, msg, i) ==
    [pos |-> p, tokens |-> toks, state |-> "none", panic |-> msg,
     esc |-> {}, tog |-> <<>>, at |-> i]

tokTextOrForm(b, p, toks) ==
    LET q == skipWhitespace(b, p)
    IN  IF q >= Len(b) THEN Returns(q, toks, "tokEOF")
        ELSE IF At(b, q) = LParen THEN Returns(q, toks, "tokForm")
        ELSE Returns(q, toks, "tokText")

\* the scanning loop of tokText without the additional textEnd++ of the
\* escapes of ( ) and \
RECURSIVE textLoop_NoEscapeSkip(_, _, _, _, _)
textLoop_NoEscapeSkip(b, textEnd, quoted, esc, tog) ==
    IF textEnd < Len(b)
       /\ ((At(b, textEnd) # RParen /\ At(b, textEnd) # LParen) \/ quoted)
    THEN IF At(b, textEnd) = Backslash
         THEN IF textEnd + 1 < Len(b)
                 /\ At(b, textEnd + 1) \in {LParen, RParen, Backslash}
              THEN textLoop_NoEscapeSkip(b, textEnd + 1, quoted, esc \cup {textEnd}, tog)
              ELSE IF textEnd + 1 < Len(b) /\ At(b, textEnd + 1) = Plus
              THEN textLoop_NoEscapeSkip(b, textEnd + 2, ~quoted, esc, Append(tog, textEnd))
              ELSE [textEnd |-> textEnd, panic |-> TRUE, esc |-> esc, tog |-> tog]
         ELSE textLoop_NoEscapeSkip(b, textEnd + 1, quoted, esc, tog)
    ELSE [textEnd |-> textEnd, panic |-> FALSE, esc |-> esc, tog |-> tog]

\* the scanning loop of tokText without quoted = !quoted
RECURSIVE textLoop_NoToggle(_, _, _, _, _)
textLoop_NoToggle(b, textEnd, quoted, esc, tog) ==
    IF textEnd < Len(b)
       /\ ((At(b, textEnd) # RParen /\ At(b, textEnd) # LParen) \/ quoted)
    THEN IF At(b, textEnd) = Backslash
         THEN IF textEnd + 1 < Len(b)
                 /\ At(b, textEnd + 1) \in {LParen, RParen, Backslash}
              THEN textLoop_NoToggle(b, textEnd + 2, quoted, esc \cup {textEnd}, tog)
              ELSE IF textEnd + 1 < Len(b) /\ At(b, textEnd + 1) = Plus
              THEN textLoop_NoToggle(b, textEnd + 2, quoted, esc, Append(tog, textEnd))
              ELSE [textEnd |-> textEnd, panic |-> TRUE, esc |-> esc, tog |-> tog]
         ELSE textLoop_NoToggle(b, textEnd + 1, quoted, esc, tog)
    ELSE [textEnd |-> textEnd, panic |-> FALSE, esc |-> esc, tog |-> tog]

\* the scanning loop of tokText ending the text at whitespace as well
RECURSIVE textLoop_StopAtSpace(_, _, _, _, _)
textLoop_StopAtSpace(b, textEnd, quoted, esc, tog) ==
    IF textEnd < Len(b)
       /\ ((At(b, textEnd) # RParen /\ At(b, textEnd) # LParen /\ ~isWhitespace(At(b, textEnd))) \/ quoted)
    THEN IF At(b, textEnd) = Backslash
         THEN IF textEnd + 1 < Len(b)
                 /\ At(b, textEnd + 1) \in {LParen, RParen, Backslash}
              THEN textLoop_StopAtSpace(b, textEnd + 2, quoted, esc \cup {textEnd}, tog)
              ELSE IF textEnd + 1 < Len(b) /\ At(b, textEnd + 1) = Plus
              THEN textLoop_StopAtSpace(b, textEnd + 2, ~quoted, esc, Append(tog, textEnd))
              ELSE [textEnd |-> textEnd, panic |-> TRUE, esc |-> esc, tog |-> tog]
         ELSE textLoop_StopAtSpace(b, textEnd + 1, quoted, esc, tog)
    ELSE [textEnd |-> textEnd, panic |-> FALSE, esc |-> esc, tog |-> tog]

\* the scanning loop of tokText without "|| quoted" in its condition
RECURSIVE textLoop_QuotedStops(_, _, _, _, _)
textLoop_QuotedStops(b, textEnd, quoted, esc, tog) ==
    IF textEnd < Len(b)
       /\ (At(b, textEnd) # RParen /\ At(b, textEnd) # LParen)
    THEN IF At(b, textEnd) = Backslash
         THEN IF textEnd + 1 < Len(b)
                 /\ At(b, textEnd + 1) \in {LParen, RParen, Backslash}
              THEN textLoop_QuotedStops(b, textEnd + 2, quoted, esc \cup {textEnd}, tog)
              ELSE IF textEnd + 1 < Len(b) /\ At(b, textEnd + 1) = Plus
              THEN textLoop_QuotedStops(b, textEnd + 2, ~quoted, esc, Append(tog, textEnd))
              ELSE [textEnd |-> textEnd, panic |-> TRUE, esc |-> esc, tog |-> tog]
         ELSE textLoop_QuotedStops(b, textEnd + 1, quoted, esc, tog)
    ELSE [textEnd |-> textEnd, panic |-> FALSE, esc |-> esc, tog |-> tog]

\* the scanning loop of tokText, from textEnd on
RECURSIVE textLoop(_, _, _, _, _)
textLoop(b, textEnd, quoted, esc, tog) ==
    IF textEnd < Len(b)
       /\ ((At(b, textEnd) # RParen /\ At(b, textEnd) # LParen) \/ quoted)
    THEN IF At(b, textEnd) = Backslash
         THEN IF textEnd + 1 < Len(b)
                 /\ At(b, textEnd + 1) \in {LParen, RParen, Backslash}
              THEN textLoop(b, textEnd + 2, quoted, esc \cup {textEnd}, tog)
              ELSE IF textEnd + 1 < Len(b) /\ At(b, textEnd + 1) = Plus
              THEN textLoop(b, textEnd + 2, ~quoted, esc, Append(tog, textEnd))
              ELSE [textEnd |-> textEnd, panic |-> TRUE, esc |-> esc, tog |-> tog]
         ELSE textLoop(b, textEnd + 1, quoted, esc, tog)
    ELSE [textEnd |-> textEnd, panic |-> FALSE, esc |-> esc, tog |-> tog]

\* tokText with t.pos = textEnd before the token is built
tokText_PosAfter(b, p, toks) ==
    LET q == skipWhitespace(b, p)
    IN  IF q >= Len(b) THEN Returns(q, toks, "tokEOF")
        ELSE LET scan == textLoop(b, q, FALSE, {}, <<>>)
             IN  IF scan.panic
                 THEN [Panics(q, toks, "invalid escape character", scan.textEnd)
                          EXCEPT !.esc = scan.esc, !.tog = scan.tog]
                 ELSE [Returns(scan.textEnd,
                               Append(toks, Token(TypeText,
                                                  String(Slice(b, scan.textEnd, scan.textEnd)),
                                                  scan.textEnd)),
                               "tokNilOrTextOrForm")
                          EXCEPT !.esc = scan.esc, !.tog = scan.tog]

tokText(b, p, toks) ==
    LET q == skipWhitespace(b, p)
    IN  IF q >= Len(b) THEN Returns(q, toks, "tokEOF")
        ELSE LET scan == textLoop(b, q, FALSE, {}, <<>>)
             IN  IF scan.panic
                 THEN [Panics(q, toks, "invalid escape character", scan.textEnd)
                          EXCEPT !.esc = scan.esc, !.tog = scan.tog]
                 ELSE [Returns(scan.textEnd,
                               Append(toks, Token(TypeText, String(Slice(b, q, scan.textEnd)), q)),
                               "tokNilOrTextOrForm")
                          EXCEPT !.esc = scan.esc, !.tog = scan.tog]

\* tokForm without the Pos field of its token, which is then 0
tokForm_NoPos(b, p, toks) ==
    Returns(p + 1, Append(toks, Token(TypeFormStart, <<LParen>>, 0)), "tokNilOrAtom")

\* tokForm without t.pos++
tokForm_NoAdvance(b, p, toks) ==
    Returns(p, Append(toks, Token(TypeFormStart, <<LParen>>, p)), "tokNilOrAtom")

tokForm(b, p, toks) ==
    Returns(p + 1, Append(toks, Token(TypeFormStart, <<LParen>>, p)), "tokNilOrAtom")

\* tokNilOrAtom with the wrong transition returned for an atom: itself
tokNilOrAtom_Self(b, p, toks) ==
    LET q == skipWhitespace(b, p)
    IN  IF q >= Len(b) THEN Returns(q, toks, "tokEOF")
        ELSE IF At(b, q) = LParen
        THEN Panics(q, toks, "invalid: cannot start form / expected atom or nil", q)
        ELSE IF At(b, q) = RParen THEN Returns(q, toks, "tokNil")
        ELSE Returns(q, toks, "tokNilOrAtom")

tokNilOrAtom(b, p, toks) ==
    LET q == skipWhitespace(b, p)
    IN  IF q >= Len(b) THEN Returns(q, toks, "tokEOF")
        ELSE IF At(b, q) = LParen
        THEN Panics(q, toks, "invalid: cannot start form / expected atom or nil", q)
        ELSE IF At(b, q) = RParen THEN Returns(q, toks, "tokNil")
        ELSE Returns(q, toks, "tokAtom")

\* tokNil with t.pos++ before the token is built
tokNil_PosAfter(b, p, toks) ==
    Returns(p + 1, Append(toks, Token(TypeFormEnd, <<RParen>>, p + 1)), "tokNilOrTextOrForm")

tokNil(b, p, toks) ==
    Returns(p + 1, Append(toks, Token(TypeFormEnd, <<RParen>>, p)), "tokNilOrTextOrForm")

\* the scanning loop of tokAtom, from atomEnd on
RECURSIVE atomLoop(_, _)
atomLoop(b, atomEnd) ==
    IF atomEnd < Len(b) /\ isAlphaNum(At(b, atomEnd)) THEN atomLoop(b, atomEnd + 1) ELSE atomEnd

\* tokAtom with the cursor set one past the end of the atom
tokAtom_SkipOne(b, p, toks) ==
    LET atomEnd == atomLoop(b, p)
    IN  Returns(atomEnd + 1, Append(toks, Token(TypeAtom, String(Slice(b, p, atomEnd)), p)),
                "tokNilOrTextOrForm")

\* tokAtom with tokNilOrAtom as the transition it returns
tokAtom_ToNilOrAtom(b, p, toks) ==
    LET atomEnd == atomLoop(b, p)
    IN  Returns(atomEnd, Append(toks, Token(TypeAtom, String(Slice(b, p, atomEnd)), p)),
                "tokNilOrAtom")

tokAtom(b, p, toks) ==
    LET atomEnd == atomLoop(b, p)
    IN  Returns(atomEnd, Append(toks, Token(TypeAtom, String(Slice(b, p, atomEnd)), p)),
                "tokNilOrTextOrForm")

\* tokNilOrTextOrForm that goes on with an atom at an atom rune
tokNilOrTextOrForm_Atoms(b, p, toks) ==
    LET q == skipWhitespace(b, p)
    IN  IF q >= Len(b) THEN Returns(q, toks, "tokEOF")
        ELSE IF At(b, q) = RParen THEN Returns(q, toks, "tokNil")
        ELSE IF At(b, q) = LParen THEN Returns(q, toks, "tokForm")
        ELSE IF isAlphaNum(At(b, q)) THEN Returns(q, toks, "tokAtom")
        ELSE Returns(q, toks, "tokText")

\* tokNilOrTextOrForm without the case of ')'
tokNilOrTextOrForm_NoNil(b, p, toks) ==
    LET q == skipWhitespace(b, p)
    IN  IF q >= Len(b) THEN Returns(q, toks, "tokEOF")
        ELSE IF At(b, q) = LParen THEN Returns(q, toks, "tokForm")
        ELSE Returns(q, toks, "tokText")

\* tokNilOrTextOrForm that goes on with tokAtom where it should with tokText
tokNilOrTextOrForm_ToAtom(b, p, toks) ==
    LET q == skipWhitespace(b, p)
    IN  IF q >= Len(b) THEN Returns(q, toks, "tokEOF")
        ELSE IF At(b, q) = RParen THEN Returns(q, toks, "tokNil")
        ELSE IF At(b, q) = LParen THEN Returns(q, toks, "tokForm")
        ELSE Returns(q, toks, "tokAtom")

tokNilOrTextOrForm(b, p, toks) ==
    LET q == skipWhitespace(b, p)
    IN  IF q >= Len(b) THEN Returns(q, toks, "tokEOF")
        ELSE IF At(b, q) = RParen THEN Returns(q, toks, "tokNil")
        ELSE IF At(b, q) = LParen THEN Returns(q, toks, "tokForm")
        ELSE Returns(q, toks, "tokText")

tokEOF(b, p, toks) ==
    Returns(p,
            toks \o << Token(TypeFormStart, <<LParen>>, p),
                       Token(TypeAtom, EofText, p),
                       Token(TypeFormEnd, <<RParen>>, p) >>,
            "nil")

\* t.state(): the call of the transition function the tokenizer holds
CallState(s, b, p, toks) ==
    CASE s = "tokTextOrForm" -> tokTextOrForm(b, p, toks)
      [] s = "tokText" -> tokText(b, p, toks)
      [] s = "tokForm" -> tokForm(b, p, toks)
      [] s = "tokNilOrAtom" -> tokNilOrAtom(b, p, toks)
      [] s = "tokNil" -> tokNil(b, p, toks)
      [] s = "tokAtom" -> tokAtom(b, p, toks)
      [] s = "tokNilOrTextOrForm" -> tokNilOrTextOrForm(b, p, toks)
      [] s = "tokEOF" -> tokEOF(b, p, toks)

----------------------------------------------------------------------------
(* The tokenizer and the run of Tokenize *)

VARIABLES
    bs,        \* Tokenizer.bs, the input
    pos,       \* Tokenizer.pos, the cursor
    tokens,    \* Tokenizer.tokens, the token buffer
    state,     \* Tokenizer.state, "nil" or the name of a transition function
    pc,        \* where Tokenize is: "new", "loop", "returned", "panicked"
    ret,       \* what Tokenize returned: its tokens and its error
    panicMsg,  \* the value of the panic that ended the run, "none" without one
    escaped,   \* history: indices of the backslashes that escaped ( ) or \
    toggles,   \* history: indices of the backslashes of the "\+" consumed
    faultAt,   \* history: the index the run was looking at when it panicked
    last,      \* history: the transition function called last, its cursor before
    stall,     \* history: the number of calls in a row that left the cursor,
               \* counted up to MaxStall
    other      \* a second Tokenizer, with its own bs, pos, tokens, state and
               \* its own run of Tokenize (pc, ret, panicMsg); pc "none" without one

vars == <<bs, pos, tokens, state, pc, ret, panicMsg, escaped, toggles, faultAt, last,
          stall, other>>

\* an error value: nil is [kind |-> "nil", pos |-> -1]
Error(kind, p) == [kind |-> kind, pos |-> p]

\* ret before Tokenize has returned
NoReturn == [tokens |-> <<>>, err |-> Error("none", -1)]

\* a Tokenizer built from the input b, as a record, and its run of Tokenize
NewTokenizer(b) ==
    [bs |-> b, pos |-> 0, tokens |-> <<>>, state |-> "nil",
     pc |-> "new", ret |-> NoReturn, panicMsg |-> "none"]

\* no second Tokenizer
NoOther == [NewTokenizer(<<>>) EXCEPT !.pc = "none"]

\* NewTokenizer(bs): every other field has its zero value
Init ==
    /\ bs \in Inputs
    /\ pos = 0
    /\ tokens = <<>>
    /\ state = "nil"
    /\ pc = "new"
    /\ ret = NoReturn
    /\ panicMsg = "none"
    /\ escaped = {}
    /\ toggles = <<>>
    /\ faultAt = -1
    /\ last = [state |-> "nil", pos |-> 0]
    /\ stall = 0
    /\ other = NoOther

\* Tokenize, up to its loop
TokenizeStart ==
    /\ pc = "new"
    /\ state' = "tokTextOrForm"
    /\ pc' = "loop"
    /\ UNCHANGED <<bs, pos, tokens, ret, panicMsg, escaped, toggles, faultAt, last,
                   stall, other>>

\* the condition of the loop of Tokenize
LoopCond == pos < Len(bs) /\ state # "nil"

\* one iteration of the loop of Tokenize: t.state = t.state()
TokenizeStep ==
    /\ pc = "loop"
    /\ LoopCond
    /\ LET r == CallState(state, bs, pos, tokens)
       IN  /\ pos' = r.pos
           /\ tokens' = r.tokens
           /\ escaped' = escaped \cup r.esc
           /\ toggles' = toggles \o r.tog
           /\ last' = [state |-> state, pos |-> pos]
           /\ stall' = IF r.pos > pos THEN 0
                       ELSE IF stall < MaxStall THEN stall + 1 ELSE stall
           /\ IF r.panic = "none"
              THEN /\ state' = r.state
                   /\ pc' = "loop"
                   /\ UNCHANGED <<panicMsg, faultAt>>
              ELSE /\ state' = state
                   /\ pc' = "panicked"
                   /\ panicMsg' = r.panic
                   /\ faultAt' = r.at
    /\ UNCHANGED <<bs, ret, other>>

\* the loop of Tokenize is left: return t.tokens, nil
TokenizeReturn ==
    /\ pc = "loop"
    /\ ~LoopCond
    /\ ret' = [tokens |-> tokens, err |-> Error("nil", -1)]
    /\ pc' = "returned"
    /\ UNCHANGED <<bs, pos, tokens, state, panicMsg, escaped, toggles, faultAt, last,
                   stall, other>>

Next == TokenizeStart \/ TokenizeStep \/ TokenizeReturn

Spec == Init /\ [][Next]_vars

\* the run is one synchronous call: it goes on until it returns or panics
FairSpec == Spec /\ WF_vars(Next)

----------------------------------------------------------------------------
(* Two tokenizers built from different inputs, their runs of Tokenize      *)
(* interleaved transition by transition.  The methods of the second work   *)
(* on their receiver, the record other.                                    *)

InitPair ==
    /\ bs \in SeqsUpTo(MaxPairLen) \cup Examples
    /\ other \in {NewTokenizer(b) : b \in Examples \ {bs}}
    /\ pos = 0
    /\ tokens = <<>>
    /\ state = "nil"
    /\ pc = "new"
    /\ ret = NoReturn
    /\ panicMsg = "none"
    /\ escaped = {}
    /\ toggles = <<>>
    /\ faultAt = -1
    /\ last = [state |-> "nil", pos |-> 0]
    /\ stall = 0

\* the fields of the first tokenizer and of its run, and its history
first == <<bs, pos, tokens, state, pc, ret, panicMsg, escaped, toggles, faultAt, last,
           stall>>

\* Tokenize of the second tokenizer, up to its loop
OtherStart ==
    /\ other.pc = "new"
    /\ other' = [other EXCEPT !.state = "tokTextOrForm", !.pc = "loop"]
    /\ UNCHANGED first

\* the condition of the loop of Tokenize of the second tokenizer
OtherLoopCond == other.pos < Len(other.bs) /\ other.state # "nil"

\* a call of the second tokenizer's t.state() with the cursor kept in a
\* variable of the package, where the first tokenizer keeps its cursor too
OtherCall_SharedCursor == CallState(other.state, other.bs, pos, other.tokens)

\* t.state() of the second tokenizer: the method reads its receiver's fields
OtherCall == CallState(other.state, other.bs, other.pos, other.tokens)

\* one iteration of the loop of Tokenize of the second tokenizer
OtherStep ==
    /\ other.pc = "loop"
    /\ OtherLoopCond
    /\ LET r == OtherCall
       IN  other' = IF r.panic = "none"
                    THEN [other EXCEPT !.pos = r.pos, !.tokens = r.tokens,
                                       !.state = r.state]
                    ELSE [other EXCEPT !.pos = r.pos, !.tokens = r.tokens,
                                       !.pc = "panicked", !.panicMsg = r.panic]
    /\ UNCHANGED first

\* the loop of Tokenize of the second tokenizer is left
OtherReturn ==
    /\ other.pc = "loop"
    /\ ~OtherLoopCond
    /\ other' = [other EXCEPT !.pc = "returned",
                              !.ret = [tokens |-> other.tokens, err |-> Error("nil", -1)]]
    /\ UNCHANGED first

NextPair ==
    TokenizeStart \/ TokenizeStep \/ TokenizeReturn \/ OtherStart \/ OtherStep \/ OtherReturn

PairSpec == InitPair /\ [][NextPair]_vars

\* the loop of Tokenize run alone, from the cursor p, the token buffer toks
\* and the transition function s on: how the run ends and with which tokens
RECURSIVE loopAlone(_, _, _, _)
loopAlone(b, p, toks, s) ==
    IF p < Len(b) /\ s # "nil"
    THEN LET r == CallState(s, b, p, toks)
         IN  IF r.panic = "none"
             THEN loopAlone(b, r.pos, r.tokens, r.state)
             ELSE [pc |-> "panicked", tokens |-> r.tokens, panicMsg |-> r.panic]
    ELSE [pc |-> "returned", tokens |-> toks, panicMsg |-> "none"]

\* Tokenize of a tokenizer built from b, run alone
TokenizeAlone(b) == loopAlone(b, 0, <<>>, "tokTextOrForm")

TypeOK ==
    /\ pos \in 0..Len(bs)
    /\ pc \in {"new", "loop", "returned", "panicked"}

\* the run has ended, by return or by panic
Ended == pc \in {"returned", "panicked"}

\* the index after the last rune of token k, counting code points
End(k) == tokens[k].Pos + Len(tokens[k].Text)

\* tokens k, k+1, k+2 are what tokEOF appends: the three at one position
EofTripleAt(toks, k) ==
    /\ k >= 1
    /\ k + 2 <= Len(toks)
    /\ toks[k] = Token(TypeFormStart, <<LParen>>, toks[k].Pos)
    /\ toks[k + 1] = Token(TypeAtom, EofText, toks[k].Pos)
    /\ toks[k + 2] = Token(TypeFormEnd, <<RParen>>, toks[k].Pos)

\* token k is one of a synthetic eof triple
Synthetic(toks, k) == \E j \in {k - 2, k - 1, k} : EofTripleAt(toks, j)

----------------------------------------------------------------------------
(* Claims *)

\* C1: when Tokenize returns without error, the returned sequence ends with
\* FormStart "(", Atom "eof", FormEnd ")", all three at the final cursor.
C1_EndsWithEofTriple ==
    (pc = "returned" /\ ret.err = Error("nil", -1))
        => /\ EofTripleAt(ret.tokens, Len(ret.tokens) - 2)
           /\ ret.tokens[Len(ret.tokens)].Pos = pos

\* why C1 fails: tokEOF is only ever returned with the cursor at the end of
\* the input, where the loop of Tokenize stops before calling it
EofNeverCalled == (pc = "loop" /\ state = "tokEOF") => ~LoopCond

\* C2: for every finite input a run of Tokenize terminates: the loop
\* eventually stops, by return or by a lexical error.
C2_Terminates == <>Ended

\* a run has ended after transitions that did not advance the cursor: an
\* empty Atom and an empty Text token were emitted on the way
C2_Witness ==
    /\ pc = "returned"
    /\ \E k \in 1..Len(tokens) : tokens[k].Type = TypeAtom /\ tokens[k].Text = <<>>
    /\ \E k \in 1..Len(tokens) : tokens[k].Type = TypeText /\ tokens[k].Text = <<>>

\* C3: a lexical error reaches the caller of Tokenize as a returned error
\* value, never as a fault that aborts the run: no run ends in a panic, and a
\* run that met a lexical error returns a non-nil error.
C3_ErrorIsReturned ==
    /\ pc # "panicked"
    /\ panicMsg = "none"
    /\ (Ended /\ faultAt # -1) => ret.err.kind \notin {"nil", "none"}

\* the backslash at index i is the last rune or is followed by a rune other
\* than ( ) \ +
BadBackslashAt(i) ==
    /\ i < Len(bs)
    /\ At(bs, i) = Backslash
    /\ (i + 1 = Len(bs) \/ At(bs, i + 1) \notin {LParen, RParen, Backslash, Plus})

\* C4: when the Text scan meets a backslash that is the last rune or is
\* followed by a rune other than ( ) \ +, the run fails with an InvalidEscape
\* error whose position is the index of that backslash.
C4_InvalidEscapeAtBackslash ==
    \A i \in 0..(Len(bs) - 1) :
        (last.state = "tokText" /\ faultAt = i /\ BadBackslashAt(i))
            => (pc = "returned" /\ ret.err = Error("InvalidEscape", i))

\* C5: when, after a FormStart token, the next non-whitespace rune is '(',
\* the run fails with an ExpectedAtomOrClose error whose position is the
\* index of that second '(' and no FormStart token is emitted for it.
C5_ExpectedAtomOrCloseAtParen ==
    \A i \in 0..(Len(bs) - 1) :
        (last.state = "tokNilOrAtom" /\ faultAt = i /\ At(bs, i) = LParen)
            => /\ pc = "returned"
               /\ ret.err = Error("ExpectedAtomOrClose", i)
               /\ \A k \in 1..Len(ret.tokens) : ret.tokens[k].Pos # i

\* a valid Unicode scalar value: a code point that is no surrogate half
ScalarValue(r) == (r >= 0 /\ r <= 55295) \/ (r >= 57344 /\ r <= 1114111)

\* token k lies within the input
InInput(k) == tokens[k].Pos >= 0 /\ End(k) <= Len(bs)

\* FormStart tokens have text "(" and sit on a '(' of the input, FormEnd
\* tokens have text ")" and sit on a ')'
ParensSitOnParens(k) ==
    /\ tokens[k].Type = TypeFormStart
         => tokens[k].Text = <<LParen>> /\ At(bs, tokens[k].Pos) = LParen
    /\ tokens[k].Type = TypeFormEnd
         => tokens[k].Text = <<RParen>> /\ At(bs, tokens[k].Pos) = RParen

\* C6 (as stated): in every reachable state every token other than the
\* synthetic eof triple has text equal to the input slice it covers, every
\* FormStart token has text "(" and sits on an input '(', every FormEnd token
\* has text ")" and sits on an input ')'.
C6_TextIsInputSlice ==
    \A k \in 1..Len(tokens) :
        ~Synthetic(tokens, k)
            => /\ InInput(k)
               /\ tokens[k].Text = Slice(bs, tokens[k].Pos, End(k))
               /\ ParensSitOnParens(k)

\* C6 (amended): every token other than the synthetic eof triple has as text
\* the input slice it covers, rune by rune, except that a rune of the input
\* that is no valid Unicode scalar value appears in the text as U+FFFD; the
\* FormStart and FormEnd tokens are as stated.
C6_TextIsConvertedInputSlice ==
    \A k \in 1..Len(tokens) :
        ~Synthetic(tokens, k)
            => /\ InInput(k)
               /\ \A j \in 1..Len(tokens[k].Text) :
                     LET r == At(bs, tokens[k].Pos + j - 1)
                     IN  IF ScalarValue(r) THEN tokens[k].Text[j] = r
                                           ELSE tokens[k].Text[j] = 65533
               /\ ParensSitOnParens(k)

\* a run has returned a Text token that covers a surrogate half of the
\* input, a FormStart and a FormEnd token
C6_Witness ==
    /\ pc = "returned"
    /\ \E k \in 1..Len(tokens) :
          /\ tokens[k].Type = TypeText
          /\ \E j \in 1..Len(tokens[k].Text) : tokens[k].Text[j] = 65533
    /\ \E k \in 1..Len(tokens) : tokens[k].Type = TypeFormStart
    /\ \E k \in 1..Len(tokens) : tokens[k].Type = TypeFormEnd

\* C7: in every reachable state the token buffer is ordered by position:
\* a.Pos <= b.Pos for all adjacent tokens a, b.
C7_PositionsOrdered ==
    \A k \in 1..(Len(tokens) - 1) : tokens[k].Pos <= tokens[k + 1].Pos

\* a run has returned at least three tokens, two adjacent ones at the same
\* position and two adjacent ones at different positions
C7_Witness ==
    /\ pc = "returned"
    /\ Len(tokens) >= 3
    /\ \E k \in 1..(Len(tokens) - 1) : tokens[k].Pos = tokens[k + 1].Pos
    /\ \E k \in 1..(Len(tokens) - 1) : tokens[k].Pos < tokens[k + 1].Pos

\* the input index i lies in the span of a token other than the eof triple
Covered(i) ==
    \E k \in 1..Len(ret.tokens) :
        /\ ~Synthetic(ret.tokens, k)
        /\ ret.tokens[k].Pos <= i
        /\ i < ret.tokens[k].Pos + Len(ret.tokens[k].Text)

\* C8: when Tokenize returns without error it has consumed the entire input:
\* the cursor equals the input length, the spans of the non-eof tokens are
\* pairwise disjoint and in increasing order, and every input rune in no
\* span is one of space, \n, \r, \t, \v, \f.
C8_ConsumesWholeInput ==
    (pc = "returned" /\ ret.err = Error("nil", -1))
        => /\ pos = Len(bs)
           /\ \A k \in 1..Len(ret.tokens) :
                 ~Synthetic(ret.tokens, k)
                     => /\ ret.tokens[k].Pos >= 0
                        /\ ret.tokens[k].Pos + Len(ret.tokens[k].Text) <= Len(bs)
           /\ \A k, m \in 1..Len(ret.tokens) :
                 (k < m /\ ~Synthetic(ret.tokens, k) /\ ~Synthetic(ret.tokens, m))
                     => ret.tokens[k].Pos + Len(ret.tokens[k].Text) <= ret.tokens[m].Pos
           /\ \A i \in 0..(Len(bs) - 1) :
                 ~Covered(i) => At(bs, i) \in {32, 10, 13, 9, 11, 12}

\* a run has returned several tokens and has left whitespace between two of
\* them and before the first
C8_Witness ==
    /\ pc = "returned"
    /\ ret.err = Error("nil", -1)
    /\ Len(ret.tokens) >= 2
    /\ ~Covered(0)
    /\ \E i \in 1..(Len(bs) - 1) : ~Covered(i) /\ Covered(i - 1)

\* token k is a Text token that holds the input runes i and i+1
TextHolds(k, i) ==
    /\ tokens[k].Type = TypeText
    /\ tokens[k].Pos <= i
    /\ i + 1 < End(k)
    /\ tokens[k].Text[i - tokens[k].Pos + 1] = At(bs, i)
    /\ tokens[k].Text[i - tokens[k].Pos + 2] = At(bs, i + 1)

\* C9: inside a Text scan a backslash followed by ( ) or \ is an escaped
\* literal: both runes are consumed into the same Text token, the backslash
\* is retained, and the scan does not end at the escaped parenthesis, so no
\* FormStart or FormEnd token is emitted at it; a\(b yields the one Text
\* token a\(b.
C9_EscapedLiteral ==
    /\ \A i \in escaped :
          i < pos
              => /\ At(bs, i) = Backslash
                 /\ At(bs, i + 1) \in {LParen, RParen, Backslash}
                 /\ \E k \in 1..Len(tokens) : TextHolds(k, i)
                 /\ \A k \in 1..Len(tokens) :
                       tokens[k].Pos = i + 1 => tokens[k].Type = TypeText
    /\ (bs = <<97, 92, 40, 98>> /\ pc = "returned")
          => ret.tokens = <<Token(TypeText, <<97, 92, 40, 98>>, 0)>>

\* a run has returned after a Text scan that met an escaped parenthesis
\* with more text behind it
C9_Witness ==
    /\ pc = "returned"
    /\ \E i \in escaped :
          /\ At(bs, i + 1) \in {LParen, RParen}
          /\ \E k \in 1..Len(tokens) : TextHolds(k, i) /\ End(k) > i + 2

\* the input index p lies between an opening "\+" and its closing "\+"
InQuotedRegion(p) ==
    \E n \in 1..(Len(toggles) \div 2) :
        toggles[2 * n - 1] + 1 < p /\ p < toggles[2 * n]

\* C10: inside a Text scan each "\+" toggles the quoted flag and is consumed
\* into the span; while the flag is true ( and ) do not end the scan: no
\* FormStart or FormEnd token is emitted at the position of a parenthesis
\* between an opening "\+" and the matching closing "\+"; \+(\+ yields no
\* FormStart.
C10_QuotedParens ==
    /\ \A k \in 1..Len(tokens) :
          tokens[k].Type \in {TypeFormStart, TypeFormEnd}
              => ~InQuotedRegion(tokens[k].Pos)
    /\ \A n \in 1..Len(toggles) :
          toggles[n] < pos
              => /\ At(bs, toggles[n]) = Backslash
                 /\ At(bs, toggles[n] + 1) = Plus
                 /\ \E k \in 1..Len(tokens) : TextHolds(k, toggles[n])
    /\ (bs = <<92, 43, 40, 92, 43>> /\ pc = "returned")
          => \A k \in 1..Len(ret.tokens) : ret.tokens[k].Type # TypeFormStart

\* a run has returned after a Text scan with a parenthesis between an
\* opening and a closing "\+", and with an unquoted parenthesis after them
C10_Witness ==
    /\ pc = "returned"
    /\ \E p \in 0..(Len(bs) - 1) : InQuotedRegion(p) /\ At(bs, p) \in {LParen, RParen}
    /\ \E k \in 1..Len(tokens) :
          /\ tokens[k].Type \in {TypeFormStart, TypeFormEnd}
          /\ Len(toggles) >= 2
          /\ tokens[k].Pos > toggles[2]

\* a lowercase ASCII letter, '-' or an ASCII digit
AtomRune(r) == (r >= 97 /\ r <= 122) \/ r = 45 \/ (r >= 48 /\ r <= 57)

\* C11: every Atom token's text consists only of lowercase ASCII letters,
\* '-' and ASCII digits, and the atom scan is maximal: the atom ends at the
\* end of the input or at the first rune outside that class, which is not
\* part of the atom: tokAtom leaves the cursor on it for the following state
\* and no later token starts before it; for (abc-12) the atom text is abc-12.
C11_AtomClassMaximal ==
    /\ \A k \in 1..Len(tokens) :
          (tokens[k].Type = TypeAtom /\ ~Synthetic(tokens, k))
              => /\ \A j \in 1..Len(tokens[k].Text) : AtomRune(tokens[k].Text[j])
                 /\ tokens[k].Text = Slice(bs, tokens[k].Pos, End(k))
                 /\ End(k) <= Len(bs)
                 /\ End(k) < Len(bs) => ~AtomRune(At(bs, End(k)))
                 /\ k < Len(tokens) => tokens[k + 1].Pos >= End(k)
                 /\ (k = Len(tokens) /\ last.state = "tokAtom") => pos = End(k)
    /\ (bs = <<40, 97, 98, 99, 45, 49, 50, 41>> /\ Len(tokens) >= 2)
          => tokens[2] = Token(TypeAtom, <<97, 98, 99, 45, 49, 50>>, 1)

\* a run has returned an atom that stopped at an uppercase letter or at an
\* underscore, which went into the token after it
C11_Witness ==
    /\ pc = "returned"
    /\ \E k \in 1..(Len(tokens) - 1) :
          /\ tokens[k].Type = TypeAtom
          /\ tokens[k].Text # <<>>
          /\ At(bs, End(k)) \in {65, 95}
          /\ tokens[k + 1].Pos = End(k)
          /\ tokens[k + 1].Type = TypeText

\* the input is '(' a ')' with a a non-empty string of atom runes
FormOfOneAtom ==
    /\ Len(bs) >= 3
    /\ bs[1] = 40
    /\ bs[Len(bs)] = 41
    /\ \A i \in 2..(Len(bs) - 1) : AtomRune(bs[i])

\* C12: for every input '(' a ')' with a a non-empty string of atom runes,
\* the output without the eof triple is exactly FormStart "(" at 0, Atom a
\* at 1, FormEnd ")" at len(a)+1.
C12_FormOfOneAtom ==
    (FormOfOneAtom /\ Ended)
        => /\ pc = "returned"
           /\ LET n == IF EofTripleAt(ret.tokens, Len(ret.tokens) - 2)
                       THEN Len(ret.tokens) - 3 ELSE Len(ret.tokens)
              IN  SubSeq(ret.tokens, 1, n)
                      = << Token(TypeFormStart, <<40>>, 0),
                           Token(TypeAtom, SubSeq(bs, 2, Len(bs) - 1), 1),
                           Token(TypeFormEnd, <<41>>, Len(bs) - 1) >>

\* a run on such an input with an atom of several runes has returned
C12_Witness == FormOfOneAtom /\ pc = "returned" /\ Len(bs) > 3 /\ Len(ret.tokens) = 3

\* the input is not empty, holds no ( ) \ and does not start with whitespace
BareText ==
    /\ Len(bs) >= 1
    /\ \A i \in 1..Len(bs) : bs[i] \notin {40, 41, 92}
    /\ bs[1] \notin {32, 10, 13, 9, 11, 12}

\* the tokens Tokenize returned, without a trailing eof triple
Output ==
    IF EofTripleAt(ret.tokens, Len(ret.tokens) - 2)
    THEN SubSeq(ret.tokens, 1, Len(ret.tokens) - 3)
    ELSE ret.tokens

\* C13 (as stated): for every non-empty input without ( ) \ that does not
\* start with whitespace the output without the eof triple is exactly one
\* Text token whose text is the whole input and whose position is 0.
C13_BareTextWhole ==
    (BareText /\ Ended) => (pc = "returned" /\ Output = <<Token(TypeText, bs, 0)>>)

\* C13 (amended): ... exactly one Text token at position 0 whose text is the
\* whole input, rune by rune, with U+FFFD in the place of every rune that is
\* no valid Unicode scalar value.
C13_BareTextConverted ==
    (BareText /\ Ended)
        => /\ pc = "returned"
           /\ Len(Output) = 1
           /\ Output[1].Type = TypeText
           /\ Output[1].Pos = 0
           /\ Len(Output[1].Text) = Len(bs)
           /\ \A j \in 1..Len(bs) :
                 Output[1].Text[j] = IF ScalarValue(bs[j]) THEN bs[j] ELSE 65533

\* a run on such an input with whitespace and a "+" inside has returned
C13_Witness ==
    /\ BareText
    /\ pc = "returned"
    /\ Len(bs) >= 3
    /\ \E i \in 2..Len(bs) : bs[i] = 32
    /\ \E i \in 1..Len(bs) : bs[i] = 43

\* C15 (as stated): every transition that does not end the run strictly
\* advances the cursor.
C15_EveryTransitionAdvances ==
    (pc = "loop" /\ last.state # "nil" /\ LoopCond) => pos > last.pos

\* C15 (amended): no transition moves the cursor backwards, and of any four
\* transitions in a row at least one strictly advances the cursor or ends
\* the run by a panic: at most three in a row leave the cursor where it is
\* and let the run go on.
C15_AdvancesWithinFour == last.pos <= pos /\ (pc = "loop" => stall <= 3)

\* three transitions in a row have left the cursor where it was, and the
\* run goes on
C15_Witness == stall = 3 /\ pc = "loop" /\ LoopCond

\* the last "\+" consumed opened a quoted region that no "\+" closes
QuoteLeftOpen == Len(toggles) % 2 = 1

\* the input index p lies in a quoted region, closed or not
Quoted(p) ==
    \/ InQuotedRegion(p)
    \/ QuoteLeftOpen /\ p > toggles[Len(toggles)] + 1

\* at the input index p is a '(' or ')' that no backslash escapes and that
\* lies in no quoted region
FreeParen(p) ==
    /\ p >= 0
    /\ p < Len(bs)
    /\ At(bs, p) \in {40, 41}
    /\ (p - 1) \notin escaped
    /\ ~Quoted(p)

\* C16: every Text token's span is maximal: it ends at the end of the input
\* or immediately before a '(' or ')' that is neither escaped by a backslash
\* nor inside a quoted region, and no such parenthesis lies inside the span.
C16_TextSpanMaximal ==
    \A k \in 1..Len(tokens) :
        tokens[k].Type = TypeText
            => /\ End(k) = Len(bs) \/ FreeParen(End(k))
               /\ \A p \in tokens[k].Pos..(End(k) - 1) : ~FreeParen(p)

\* a run has returned a Text token that holds whitespace and an escaped or
\* quoted parenthesis, and that ends before a parenthesis
C16_Witness ==
    /\ pc = "returned"
    /\ \E k \in 1..Len(tokens) :
          /\ tokens[k].Type = TypeText
          /\ FreeParen(End(k))
          /\ \E p \in tokens[k].Pos..(End(k) - 1) : At(bs, p) = 32
          /\ \E p \in tokens[k].Pos..(End(k) - 1) :
                At(bs, p) \in {40, 41} /\ (Quoted(p) \/ (p - 1) \in escaped)

\* token k is an Atom token with empty text
EmptyAtom(k) == tokens[k].Type = TypeAtom /\ tokens[k].Text = <<>>

\* token k is an Atom token that tokAtom emitted for a first rune after '('
\* and whitespace that is none of ( ) or an atom rune
AtomAtOtherRune(k) ==
    /\ tokens[k].Type = TypeAtom
    /\ ~Synthetic(tokens, k)
    /\ tokens[k].Pos < Len(bs)
    /\ ~AtomRune(At(bs, tokens[k].Pos))

\* C17 (as stated): when the first non-whitespace rune after a form-opening
\* '(' is none of ( ) or an atom rune, tokAtom emits an Atom token with empty
\* text and leaves the cursor unchanged, and this stalls progress: the
\* machine does not go on to consume that rune.
C17_EmptyAtomStalls ==
    \A k \in 1..Len(tokens) :
        AtomAtOtherRune(k)
            => /\ EmptyAtom(k)
               /\ pos = tokens[k].Pos
               /\ k = Len(tokens)

\* C17 (amended): ... tokAtom emits an Atom token with empty text and leaves
\* the cursor unchanged, and this does not stall progress: the next token is
\* a non-empty Text token at the same position that consumes that rune, and
\* the run ends with that token emitted or by the panic of an invalid escape
\* in that Text scan.
C17_EmptyAtomThenText ==
    \A k \in 1..Len(tokens) :
        AtomAtOtherRune(k)
            => /\ EmptyAtom(k)
               /\ k > 1
               /\ tokens[k - 1].Type = TypeFormStart
               /\ At(bs, tokens[k].Pos) \notin {40, 41, 32, 10, 13, 9, 11, 12}
               /\ (k = Len(tokens) /\ last.state = "tokAtom") => pos = tokens[k].Pos
               /\ k < Len(tokens)
                     => /\ tokens[k + 1].Type = TypeText
                        /\ tokens[k + 1].Pos = tokens[k].Pos
                        /\ tokens[k + 1].Text # <<>>
                        /\ (k + 1 = Len(tokens) /\ last.state = "tokText")
                              => pos > tokens[k].Pos
               /\ (Ended /\ k = Len(tokens))
                     => /\ pc = "panicked"
                        /\ panicMsg = "invalid escape character"
                        /\ faultAt >= tokens[k].Pos

\* a run has returned with an empty Atom token and the Text token after it
C17_Witness ==
    /\ pc = "returned"
    /\ \E k \in 1..(Len(tokens) - 1) :
          AtomAtOtherRune(k) /\ EmptyAtom(k) /\ tokens[k + 1].Type = TypeText

\* C18: every Atom token is immediately preceded by a FormStart token at the
\* '(' that opens it (the eof atom by the synthetic FormStart): only
\* whitespace lies between that '(' and the atom, and no Atom is a second
\* or later element of a form.
C18_AtomFollowsFormStart ==
    \A k \in 1..Len(tokens) :
        tokens[k].Type = TypeAtom
            => /\ k > 1
               /\ tokens[k - 1].Type = TypeFormStart
               /\ IF Synthetic(tokens, k)
                  THEN tokens[k - 1].Pos = tokens[k].Pos
                  ELSE /\ tokens[k - 1].Pos < tokens[k].Pos
                       /\ At(bs, tokens[k - 1].Pos) = 40
                       /\ \A i \in (tokens[k - 1].Pos + 1)..(tokens[k].Pos - 1) :
                             At(bs, i) \in {32, 10, 13, 9, 11, 12}

\* a run has returned a form whose first element is an Atom and whose
\* second element, of atom runes only, is a Text token
C18_Witness ==
    /\ pc = "returned"
    /\ \E k \in 2..(Len(tokens) - 1) :
          /\ tokens[k].Type = TypeAtom
          /\ tokens[k].Text # <<>>
          /\ tokens[k + 1].Type = TypeText
          /\ tokens[k + 1].Text # <<>>
          /\ \A j \in 1..Len(tokens[k + 1].Text) : AtomRune(tokens[k + 1].Text[j])

\* C19: a Text token with empty text is emitted only as the very first token
\* of a run and only when the first non-whitespace rune of the input is ')';
\* every other Text token has non-empty text whose first rune is not
\* whitespace, '(' or ')'.
C19_EmptyTextOnlyFirst ==
    \A k \in 1..Len(tokens) :
        tokens[k].Type = TypeText
            => IF tokens[k].Text = <<>>
               THEN /\ k = 1
                    /\ tokens[k].Pos < Len(bs)
                    /\ At(bs, tokens[k].Pos) = 41
                    /\ \A i \in 0..(tokens[k].Pos - 1) :
                          At(bs, i) \in {32, 10, 13, 9, 11, 12}
               ELSE tokens[k].Text[1] \notin {32, 10, 13, 9, 11, 12, 40, 41}

\* a run has returned an empty Text token first and a Text token after
\* whitespace later
C19_Witness ==
    /\ pc = "returned"
    /\ Len(tokens) >= 3
    /\ tokens[1].Type = TypeText
    /\ tokens[1].Text = <<>>
    /\ \E k \in 2..Len(tokens) :
          /\ tokens[k].Type = TypeText
          /\ At(bs, tokens[k].Pos - 1) = 32

\* the last token is a Text token that holds the last "\+" consumed and
\* every rune after it
LastTextRunsToEnd(toks) ==
    /\ Len(toks) >= 1
    /\ toks[Len(toks)].Type = TypeText
    /\ toks[Len(toks)].Pos <= toggles[Len(toggles)]
    /\ toks[Len(toks)].Pos + Len(toks[Len(toks)].Text) = Len(bs)
    /\ \A k \in 1..Len(toks) :
          toks[k].Type \in {TypeFormStart, TypeFormEnd}
              => toks[k].Pos < toggles[Len(toggles)]

\* C20 (as stated): if a Text scan opens a quoted region with "\+" that no
\* second "\+" closes, the scan runs to the end of the input: the Text token
\* spans every remaining rune, all later ( and ) included, no FormStart or
\* FormEnd is emitted after it, and no error is raised.
C20_OpenQuoteRunsToEnd ==
    (Ended /\ QuoteLeftOpen)
        => /\ pc = "returned"
           /\ ret.err = Error("nil", -1)
           /\ LastTextRunsToEnd(ret.tokens)

\* C20 (amended): ... the scan runs to the end of the input unless it meets
\* an invalid escape on the way; without one the Text token spans every
\* remaining rune, all later ( and ) included, no FormStart or FormEnd is
\* emitted after it and no error is raised; with one the run panics at that
\* backslash and no token is emitted for the scan.
C20_OpenQuoteRunsToEndOrPanics ==
    (Ended /\ QuoteLeftOpen)
        => \/ /\ pc = "returned"
              /\ ret.err = Error("nil", -1)
              /\ LastTextRunsToEnd(ret.tokens)
           \/ /\ pc = "panicked"
              /\ panicMsg = "invalid escape character"
              /\ faultAt > toggles[Len(toggles)] + 1
              /\ BadBackslashAt(faultAt)
              /\ \A k \in 1..Len(tokens) : End(k) <= toggles[Len(toggles)]

\* a run has returned after a quoted region was left open with ( and )
\* after it
C20_Witness ==
    /\ pc = "returned"
    /\ QuoteLeftOpen
    /\ \E p \in 0..(Len(bs) - 1) : p > toggles[Len(toggles)] /\ At(bs, p) = 40
    /\ \E p \in 0..(Len(bs) - 1) : p > toggles[Len(toggles)] /\ At(bs, p) = 41

\* toks is the beginning of the token sequence all
Prefix(toks, all) == Len(toks) <= Len(all) /\ toks = SubSeq(all, 1, Len(toks))

\* C14: two tokenizers built from different inputs whose transitions are
\* interleaved arbitrarily each produce exactly the token sequence they
\* produce when run alone: at every point the token buffer of each is the
\* beginning of the sequence of its run alone, and each ends as alone, with
\* the same tokens.
C14_InterleavedAsAlone ==
    /\ bs # other.bs
    /\ Prefix(tokens, TokenizeAlone(bs).tokens)
    /\ Prefix(other.tokens, TokenizeAlone(other.bs).tokens)
    /\ Ended
          => [pc |-> pc, tokens |-> tokens, panicMsg |-> panicMsg] = TokenizeAlone(bs)
    /\ other.pc \in {"returned", "panicked"}
          => [pc |-> other.pc, tokens |-> other.tokens, panicMsg |-> other.panicMsg]
                 = TokenizeAlone(other.bs)
    /\ pc = "returned" => ret.tokens = TokenizeAlone(bs).tokens
    /\ other.pc = "returned" => other.ret.tokens = TokenizeAlone(other.bs).tokens

\* both runs are in their loops, each with tokens in its buffer and more
\* input before it, at different cursors: the transitions are interleaved
C14_Witness ==
    /\ pc = "loop"
    /\ other.pc = "loop"
    /\ Len(tokens) >= 2
    /\ Len(other.tokens) >= 2
    /\ LoopCond
    /\ OtherLoopCond
    /\ pos # other.pos

====
